---- MODULE Spec2Model ----
(***************************************************************************)
(* A model of the QR scanner library: ScannerService (start, stop,         *)
(* scanLoop), CameraManager (startStream, stopStream) and QrDecoder, on    *)
(* the single-threaded event loop of the browser.  Every handler is an     *)
(* operator from a world record to a world record; an action of the       *)
(* specification runs one task of the event loop to completion.            *)
(***************************************************************************)
EXTENDS Integers, Sequences, FiniteSets, TLC

\* ------------------------------------------------------------------ bounds

\* video.play() requests of one acquisition's attemptPlay that are in flight.
MaxPlays == 2

\* start() calls made on the session, numbered in the order they are made.
MaxStarts == 2

\* The number of devices the platform enumerates.
MaxDevices == 3

Calls == 1..MaxStarts

\* ------------------------------------------------------ values of the model

\* Strings are sequences of characters, so that trim() is computed.
Texts == {<<>>, <<" ">>, <<"a">>, <<" ", "a">>}

\* What jsQR does with one frame: raise, find no code, or return code.data.
JsQrResults ==
    {[kind |-> "throw", data |-> <<>>], [kind |-> "nocode", data |-> <<>>]}
        \cup {[kind |-> "code", data |-> t] : t \in Texts}

\* What the caller's onScanSuccess does: return, call stop(), or raise.
CallbackBehaviours == {"return", "stop", "raise"}

NoCode == [kind |-> "nocode", data |-> <<>>]

\* The names of the errors getUserMedia rejects with.
GumErrorNames ==
    {"NotAllowedError", "NotFoundError", "DevicesNotFoundError", "NotReadableError",
     "TrackStartError", "OverconstrainedError", "ConstraintNotSatisfiedError",
     "AbortError", "SecurityError"}

\* An Error object: its name and its message (a tuple of the message's parts).
Error(name, message) == [name |-> name, message |-> message]

\* HTMLMediaElement.readyState: HAVE_NOTHING, HAVE_CURRENT_DATA, HAVE_FUTURE_DATA
\* (one representative below, between and above the two thresholds of the code).
ReadyStates == {0, 2, 3}

\* videoWidth x videoHeight of the surface.
VideoSizes == {<<0, 0>>, <<1, 1>>}

\* What the browser reports of the bound media when a task reads it: readyState,
\* the dimensions, whether playback was paused from outside or has ended.
Surfaces ==
    {m \in [readyState : ReadyStates, size : VideoSizes, playback : {"playing", "paused", "ended"}] :
         m.readyState = 0 => m.size = <<0, 0>>}

\* The surface with no media bound.
NoMedia == [readyState |-> 0, size |-> <<0, 0>>, playback |-> "playing"]

\* The inputs of a task: the surface as the task reads it and, for a scanLoop
\* tick, what drawImage/getImageData, jsQR and the caller's onScanSuccess do.
\* The fields a task does not read are fixed.
Quiet(m) == [surface |-> m, capture |-> "ok", jsqr |-> NoCode, cb |-> "return"]

NoInput == Quiet(NoMedia)

\* The input of a getUserMedia rejection: the name of the platform's error.
Rejection(name) ==
    [surface |-> NoMedia, capture |-> "ok", jsqr |-> NoCode, cb |-> "return", error |-> name]

TickOutcomes ==
    {[capture |-> "throw", jsqr |-> NoCode, cb |-> "return"]}
        \cup {[capture |-> "ok", jsqr |-> j, cb |-> "return"] :
                  j \in {r \in JsQrResults : r.data # <<"a">>}}
        \cup {[capture |-> "ok", jsqr |-> [kind |-> "code", data |-> <<"a">>], cb |-> c] :
                  c \in CallbackBehaviours}

\* Whether a frame of the surface m can be captured.
Capturable(m) == m.playback = "playing" /\ m.size[1] > 0 /\ m.size[2] > 0

InputsOver(ms) ==
    {Quiet(m) : m \in {x \in ms : ~Capturable(x)}}
        \cup {[surface |-> m, capture |-> t.capture, jsqr |-> t.jsqr, cb |-> t.cb] :
                  m \in {x \in ms : Capturable(x)}, t \in TickOutcomes}

\* A tick reads playback and the dimensions.
TickInputs ==
    InputsOver({m \in Surfaces :
                   m.readyState = 3 /\ (m.playback # "playing" => m.size = <<1, 1>>)})

\* The continuation of start() reads readyState and the dimensions, and runs
\* right after a play request has succeeded.
StartInputs ==
    InputsOver({m \in Surfaces :
                   /\ m.readyState \in {0, 2}
                   /\ m.playback # "paused"
                   /\ m.playback = "ended" => m.readyState = 2 /\ m.size = <<1, 1>>})

\* The readiness poll reads readyState.
PollInputs ==
    {Quiet([readyState |-> r, size |-> <<0, 0>>, playback |-> "playing"]) : r \in {2, 3}}

\* The size of a canvas that document.createElement('canvas') returns.
DefaultCanvas == <<300, 150>>

VARIABLES
    options,   \* ScannerOptions: stopOnScan
    platform,  \* the browser: whether navigator.mediaDevices.getUserMedia exists
    svc,       \* ScannerService: isScanning, animationFrameId, canvas, listener references
    cam,       \* CameraManager: stream
    video,     \* the HTMLVideoElement: source, playback state, handlers, listeners
    tracks,    \* per obtained MediaStream: "none", "live" or "stopped"
    timers,    \* the scan loop's pending setTimeout and requestAnimationFrame callbacks
    call,      \* per start() call: its position and the closure state of its acquisition
    out,       \* what the last task emitted: callbacks, warnings, settled promises
    last       \* the last task: its operation and inputs

vars == <<options, platform, svc, cam, video, tracks, timers, call, out, last>>

\* The world the handlers transform.
World ==
    [options |-> options, platform |-> platform, svc |-> svc, cam |-> cam, video |-> video,
     tracks |-> tracks, timers |-> timers, call |-> call, out |-> <<>>,
     surface |-> NoMedia]

\* The world as a task with the inputs in finds it: a pause from outside is
\* seen as video.paused.
Observe(w, in) ==
    [w EXCEPT !.surface = IF w.video.srcObject = 0 THEN NoMedia ELSE in.surface,
              !.video.paused = @ \/ (w.video.srcObject # 0 /\ in.surface.playback = "paused")]

Emit(w, kind, id, val) ==
    [w EXCEPT !.out = Append(@, [kind |-> kind, call |-> id, val |-> val])]

\* ------------------------------------------------------------- QrDecoder

None == <<>>
Some(t) == <<t>>

Whitespace == {" "}

RECURSIVE TrimStart(_)
TrimStart(t) ==
    IF t # <<>> /\ Head(t) \in Whitespace THEN TrimStart(Tail(t)) ELSE t

RECURSIVE TrimEnd(_)
TrimEnd(t) ==
    IF t # <<>> /\ t[Len(t)] \in Whitespace THEN TrimEnd(SubSeq(t, 1, Len(t) - 1)) ELSE t

\* String.prototype.trim
Trim(t) == TrimEnd(TrimStart(t))

\* QrDecoder.decodeFromImageData: the decoded string, or None for null.
decodeFromImageData_noTrim(imageData, jsqr) ==
    IF imageData.width = 0 \/ imageData.height = 0 THEN None
    ELSE IF jsqr.kind = "code" /\ jsqr.data # <<>> THEN Some(jsqr.data)
    ELSE None

decodeFromImageData(imageData, jsqr) ==
    IF imageData.width = 0 \/ imageData.height = 0 THEN None
    ELSE IF jsqr.kind = "throw" THEN None
    ELSE IF jsqr.kind = "code" /\ jsqr.data # <<>>
         THEN IF Len(Trim(jsqr.data)) > 0 THEN Some(jsqr.data) ELSE None
    ELSE None

\* if (decodedData): null and the empty string are falsy.
Truthy(decoded) == decoded # None /\ decoded[1] # <<>>

\* --------------------------------------------------------- CameraManager

\* The catch clause of startStream: the Error thrown for a caught error.
ClassifyError_missesAliases(error) ==
    IF error.name = "NotAllowedError"
    THEN Error("Error", <<"Camera permission denied">>)
    ELSE IF error.name = "NotFoundError"
    THEN Error("Error", <<"No suitable camera found">>)
    ELSE IF error.name = "NotReadableError"
    THEN Error("Error", <<"Camera is already in use or cannot be accessed">>)
    ELSE IF error.name = "OverconstrainedError"
    THEN Error("Error", <<"Could not satisfy camera constraints">>)
    ELSE IF error.name = "AbortError"
    THEN Error("Error", <<"Camera start timed out or was aborted">>)
    ELSE Error("Error", <<"Camera Error", error.name>> \o error.message)

ClassifyError(error) ==
    IF error.name = "NotAllowedError"
    THEN Error("Error", <<"Camera permission denied">>)
    ELSE IF error.name = "NotFoundError" \/ error.name = "DevicesNotFoundError"
    THEN Error("Error", <<"No suitable camera found">>)
    ELSE IF error.name = "NotReadableError" \/ error.name = "TrackStartError"
    THEN Error("Error", <<"Camera is already in use or cannot be accessed">>)
    ELSE IF error.name = "OverconstrainedError" \/ error.name = "ConstraintNotSatisfiedError"
    THEN Error("Error", <<"Could not satisfy camera constraints">>)
    ELSE IF error.name = "AbortError"
    THEN Error("Error", <<"Camera start timed out or was aborted">>)
    ELSE Error("Error", <<"Camera Error", error.name>> \o error.message)

\* CameraManager.stopStream.  Detaching the source resets the element to
\* HAVE_NOTHING with no dimensions.
stopStream_keepsHandle(w) ==
    IF w.cam.stream # 0
    THEN [w EXCEPT !.tracks[w.cam.stream] = "stopped",
                   !.video.srcObject = 0,
                   !.video.paused = TRUE,
                   !.surface = NoMedia]
    ELSE w

stopStream(w) ==
    IF w.cam.stream # 0
    THEN [w EXCEPT !.tracks[w.cam.stream] = "stopped",
                   !.cam.stream = 0,
                   !.video.srcObject = 0,
                   !.video.paused = TRUE,
                   !.surface = NoMedia]
    ELSE w

\* cleanup() of the readiness wait of acquisition i.
cleanup_keepsInterval(w, i) ==
    [w EXCEPT !.call[i].timeoutId = FALSE,
              !.video.onloadedmetadata = 0,
              !.video.onerror = 0,
              !.video.oncanplay = 0]

cleanup(w, i) ==
    [w EXCEPT !.call[i].timeoutId = FALSE,
              !.call[i].intervalId = FALSE,
              !.video.onloadedmetadata = 0,
              !.video.onerror = 0,
              !.video.oncanplay = 0]

\* attemptPlay() of acquisition i up to its await: video.play() is requested.
attemptPlay(w, i) ==
    IF w.call[i].resolved THEN w
    ELSE [w EXCEPT !.call[i].plays = @ + 1]

\* -------------------------------------------------------- ScannerService

\* cancelAnimationFrame(this.animationFrameId); this.animationFrameId = null
cancelFrame(w) ==
    IF w.svc.animationFrameId # "null"
    THEN [w EXCEPT !.svc.animationFrameId = "null"]
    ELSE w

\* this.animationFrameId = requestAnimationFrame(this.scanLoop): a request that
\* is still pending and no longer referenced is counted in timers.frames.
requestFrame_noRequest(w) == w

requestFrame(w) ==
    [w EXCEPT !.timers.frames = IF w.svc.animationFrameId = "pending" THEN @ + 1 ELSE @,
              !.svc.animationFrameId = "pending"]

\* removeEventListener: the listeners q (in the order they were added) without k.
Without(q, k) == SelectSeq(q, LAMBDA x : x # k)

\* ScannerService.stop past its early return.
stopScanning_keepsFlag(w) ==
    LET w1 == cancelFrame(w)
        w2 == [w1 EXCEPT
                 !.video.loadedmetadataListeners = Without(@, w1.svc.onMetadataLoadedListener),
                 !.svc.onMetadataLoadedListener = 0,
                 !.video.errorListeners = Without(@, w1.svc.onVideoErrorListener),
                 !.svc.onVideoErrorListener = 0]
    IN stopStream(w2)

stopScanning(w) ==
    LET w1 == cancelFrame([w EXCEPT !.svc.isScanning = FALSE])
        w2 == [w1 EXCEPT
                 !.video.loadedmetadataListeners = Without(@, w1.svc.onMetadataLoadedListener),
                 !.svc.onMetadataLoadedListener = 0,
                 !.video.errorListeners = Without(@, w1.svc.onVideoErrorListener),
                 !.svc.onVideoErrorListener = 0]
    IN stopStream(w2)

\* ScannerService.stop
stop_reportsWhenStopped(w) ==
    IF ~w.svc.isScanning
    THEN Emit(w, "onError", 0, Error("Error", <<"not scanning">>))
    ELSE stopScanning(w)

stop(w) ==
    IF ~w.svc.isScanning THEN w ELSE stopScanning(w)

\* setTimeout(() => {...}, scanInterval) at the end of scanLoop
scheduleNext_dropsTick(w) == w

scheduleNext(w) == [w EXCEPT !.timers.timeouts = @ + 1]

\* The catch clause of scanLoop: the error is logged.
scanLoopCatch_callsOnError(w, what) ==
    Emit(Emit(w, "logError", 0, <<what>>), "onError", 0, Error("Error", <<"Scan loop error", what>>))

scanLoopCatch(w, what) == Emit(w, "logError", 0, <<what>>)

\* scanLoop after onScanSuccess has returned: stop and leave, or go on to schedule.
afterScanSuccess_alwaysStops(w) == stop(w)

afterScanSuccess(w) ==
    IF w.options.stopOnScan THEN stop(w) ELSE scheduleNext(w)

\* The guard of scanLoop: the tick leaves without capturing.
tickGuard_ignoresEnded(w) == ~w.svc.isScanning \/ w.video.paused

tickGuard(w) ==
    ~w.svc.isScanning \/ w.video.paused \/ w.surface.playback = "ended"

\* scanLoop makes the canvas as large as the video before it draws the frame.
resizeCanvas_keepsSize(w) == w

resizeCanvas(w) ==
    IF w.svc.canvas[1] # w.surface.size[1] \/ w.svc.canvas[2] # w.surface.size[2]
    THEN [w EXCEPT !.svc.canvas = w.surface.size]
    ELSE w

\* ScannerService.scanLoop, one tick with the inputs in.  A tick that passes
\* its guard is recorded when it captures the frame ("capture").
scanLoop(w, in) ==
    IF tickGuard(w)
    THEN IF w.svc.isScanning THEN stop(Emit(w, "warn", 0, <<"video element state">>)) ELSE w
    ELSE LET w1 == resizeCanvas(w)
             w2 == Emit(w1, "capture", 0, <<>>)
             imageData == [width |-> w1.svc.canvas[1], height |-> w1.svc.canvas[2]]
             captureThrows ==
                 in.capture = "throw" \/ imageData.width = 0 \/ imageData.height = 0
             decodedData == decodeFromImageData(imageData, in.jsqr)
         IN IF captureThrows
            THEN scheduleNext(scanLoopCatch(w2, "capture"))
            ELSE IF Truthy(decodedData)
            THEN LET w3 == Emit(w2, "onScanSuccess", 0, decodedData[1])
                 IN IF in.cb = "raise"
                    THEN scheduleNext(scanLoopCatch(w3, "callback"))
                    ELSE afterScanSuccess(IF in.cb = "stop" THEN stop(w3) ELSE w3)
            ELSE scheduleNext(w2)

\* The loadedmetadata listener that start() call k defined.
onMetadataLoadedListener(w, k, in) ==
    IF w.call[k].metadataLoaded \/ ~w.svc.isScanning THEN w
    ELSE LET w1 == [w EXCEPT !.call[k].metadataLoaded = TRUE]
         IN IF w1.surface.size[1] > 0 /\ w1.surface.size[2] > 0
            THEN scanLoop([w1 EXCEPT !.svc.canvas = w1.surface.size], in)
            ELSE Emit(w1, "warn", k, <<"video dimensions are 0">>)

SurfaceError == Error("Error", <<"Video element encountered an error during setup or playback">>)

\* The error listener that start() call k defined.
onVideoErrorListener_keepsScanning(w, k) ==
    IF w.svc.isScanning
    THEN Emit(w, "onError", k, SurfaceError)
    ELSE w

onVideoErrorListener(w, k) ==
    IF w.svc.isScanning
    THEN stop(Emit(w, "onError", k, SurfaceError))
    ELSE w

\* The catch clause of start() call i.
startCatch_noCallback(w, i, error) ==
    Emit([w EXCEPT !.svc.isScanning = FALSE, !.call[i].pc = "rejected"], "rejected", i, error)

startCatch(w, i, error) ==
    LET w1 == [w EXCEPT !.svc.isScanning = FALSE]
        w2 == Emit(w1, "onError", i, error)
    IN Emit([w2 EXCEPT !.call[i].pc = "rejected"], "rejected", i, error)

\* start() call i from the point where startStream has resolved.
startResolved_noFallback(w, i, in) ==
    Emit([w EXCEPT !.svc.isScanning = TRUE, !.call[i].pc = "resolved"], "resolved", i, <<>>)

startResolved(w, i, in) ==
    LET w1 == [w EXCEPT !.svc.isScanning = TRUE]
        done(x) == Emit([x EXCEPT !.call[i].pc = "resolved"], "resolved", i, <<>>)
    IN IF ~w1.call[i].metadataLoaded /\ w1.surface.readyState >= 2
       THEN IF w1.svc.onMetadataLoadedListener = 0
            THEN startCatch(w1, i, Error("TypeError", <<"onMetadataLoadedListener is not a function">>))
            ELSE done(onMetadataLoadedListener(
                          Emit(w1, "warn", i, <<"loadedmetadata potentially missed">>),
                          w1.svc.onMetadataLoadedListener, in))
       ELSE done(w1)

\* startStream() of call i failing with error: its catch clause, then start()'s.
startStreamFailed(w, i, error) == startCatch(w, i, ClassifyError(error))

\* start() call i up to its first suspension.
start_noGuard(w, i) ==
    LET w1 == [w EXCEPT !.svc.onMetadataLoadedListener = i,
                        !.svc.onVideoErrorListener = i,
                        !.video.loadedmetadataListeners = Append(@, i),
                        !.video.errorListeners = Append(@, i)]
    IN [stopStream(w1) EXCEPT !.call[i].pc = "getUserMedia"]

start(w, i) ==
    IF w.svc.isScanning
    THEN Emit(Emit([w EXCEPT !.call[i].pc = "returned"], "warn", i, <<"already scanning">>),
              "resolved", i, <<>>)
    ELSE LET w1 == [w EXCEPT !.svc.onMetadataLoadedListener = i,
                             !.svc.onVideoErrorListener = i,
                             !.video.loadedmetadataListeners = Append(@, i),
                             !.video.errorListeners = Append(@, i)]
             w2 == stopStream(w1)
         IN IF ~w.platform.getUserMedia
            THEN startStreamFailed(w2, i, Error("Error", <<"getUserMedia() not supported by this browser">>))
            ELSE [w2 EXCEPT !.call[i].pc = "getUserMedia"]

\* startStream() of call i from the point where getUserMedia has resolved:
\* the stream is stored and bound, and video.play() is requested.
streamObtained(w, i) ==
    [w EXCEPT !.tracks[i] = "live",
              !.cam.stream = i,
              !.video.srcObject = i,
              !.call[i].pc = "play"]

\* The executor of the readiness promise of call i: timeout, handlers, interval.
awaitReadiness(w, i) ==
    [w EXCEPT !.call[i].pc = "waiting",
              !.call[i].resolved = FALSE,
              !.call[i].timeoutId = TRUE,
              !.video.onloadedmetadata = i,
              !.video.oncanplay = i,
              !.video.onerror = i,
              !.call[i].intervalId = TRUE]

\* attemptPlay() of call i from the point where its video.play() has settled.
playSettled_settlesAgain(w, i, ok, in) ==
    LET w1 == [w EXCEPT !.call[i].plays = @ - 1]
    IN IF ok
       THEN startResolved(cleanup([w1 EXCEPT !.call[i].resolved = TRUE,
                                             !.video.paused = FALSE], i), i, in)
       ELSE startStreamFailed(cleanup([w1 EXCEPT !.call[i].resolved = TRUE], i), i,
                              Error("Error", <<"Failed to play video stream", "play failed">>))

playSettled(w, i, ok, in) ==
    LET w1 == [w EXCEPT !.call[i].plays = @ - 1]
    IN IF ok
       THEN LET w2 == cleanup([w1 EXCEPT !.call[i].resolved = TRUE,
                                         !.video.paused = FALSE], i)
            IN IF ~w.call[i].resolved THEN startResolved(w2, i, in) ELSE w2
       ELSE IF ~w1.call[i].resolved
            THEN startStreamFailed(cleanup([w1 EXCEPT !.call[i].resolved = TRUE], i), i,
                                   Error("Error", <<"Failed to play video stream", "play failed">>))
            ELSE w1

\* The timeout callback of the readiness wait of call i.
timeoutFired(w, i) ==
    LET w1 == [w EXCEPT !.call[i].timeoutId = FALSE]
    IN IF w1.call[i].resolved THEN w1
       ELSE startStreamFailed(cleanup([w1 EXCEPT !.call[i].resolved = TRUE], i), i,
                              Error("Error", <<"Timeout waiting for video readiness or playback">>))

\* The interval callback of the readiness wait of call i.
intervalFired(w, i) ==
    IF w.call[i].resolved THEN w
    ELSE IF w.surface.readyState >= 3 THEN attemptPlay(w, i) ELSE w

\* The session listeners ks of an event in the order they were added; each was
\* added with once: true and is skipped when a listener before it has removed it.
RECURSIVE dispatchMetadata(_, _, _)
dispatchMetadata(w, ks, in) ==
    IF ks = <<>> THEN w
    ELSE LET k == Head(ks)
         IN IF \E n \in DOMAIN w.video.loadedmetadataListeners :
                   w.video.loadedmetadataListeners[n] = k
            THEN dispatchMetadata(
                     onMetadataLoadedListener(
                         [w EXCEPT !.video.loadedmetadataListeners = Without(@, k)], k, in),
                     Tail(ks), in)
            ELSE dispatchMetadata(w, Tail(ks), in)

RECURSIVE dispatchError(_, _)
dispatchError(w, ks) ==
    IF ks = <<>> THEN w
    ELSE LET k == Head(ks)
         IN IF \E n \in DOMAIN w.video.errorListeners : w.video.errorListeners[n] = k
            THEN dispatchError(
                     onVideoErrorListener([w EXCEPT !.video.errorListeners = Without(@, k)], k),
                     Tail(ks))
            ELSE dispatchError(w, Tail(ks))

\* The video element fires loadedmetadata: video.onloadedmetadata and the
\* session's listeners (they touch disjoint state, so their order is immaterial).
loadedmetadataEvent(w, in) ==
    LET j == w.video.onloadedmetadata
        w1 == IF j # 0 /\ ~w.call[j].resolved THEN attemptPlay(w, j) ELSE w
    IN dispatchMetadata(w1, w1.video.loadedmetadataListeners, in)

\* The video element fires canplay: video.oncanplay.
canplayEvent(w) ==
    LET j == w.video.oncanplay
    IN IF j # 0 /\ ~w.call[j].resolved THEN attemptPlay(w, j) ELSE w

\* The video element fires error: video.onerror, then the session's listeners,
\* then the rejection of the readiness promise reaches the catch clauses.
errorEvent(w) ==
    LET j == w.video.onerror
        rejects == j # 0 /\ ~w.call[j].resolved
        w1 == IF rejects THEN cleanup([w EXCEPT !.call[j].resolved = TRUE], j) ELSE w
        w2 == dispatchError(w1, w1.video.errorListeners)
    IN IF rejects
       THEN startStreamFailed(w2, j, Error("Error", <<"Video element reported an error">>))
       ELSE w2

\* The callback of the scan loop's setTimeout.
scanTimeout_noRecheck(w) ==
    requestFrame([w EXCEPT !.timers.timeouts = @ - 1])

scanTimeout(w) ==
    LET w1 == [w EXCEPT !.timers.timeouts = @ - 1]
    IN IF w1.svc.isScanning THEN requestFrame(w1) ELSE w1

\* ---------------------------------------------------------- specification

IdleCall ==
    [pc |-> "idle", metadataLoaded |-> FALSE, resolved |-> FALSE,
     timeoutId |-> FALSE, intervalId |-> FALSE, plays |-> 0]

Init ==
    /\ options \in [stopOnScan : BOOLEAN]
    /\ platform \in [getUserMedia : BOOLEAN]
    /\ svc = [isScanning |-> FALSE, animationFrameId |-> "null", canvas |-> DefaultCanvas,
              onMetadataLoadedListener |-> 0, onVideoErrorListener |-> 0]
    /\ cam = [stream |-> 0]
    /\ video = [srcObject |-> 0, paused |-> TRUE, onloadedmetadata |-> 0, oncanplay |-> 0,
                onerror |-> 0, loadedmetadataListeners |-> <<>>, errorListeners |-> <<>>]
    /\ tracks = [i \in Calls |-> "none"]
    /\ timers = [timeouts |-> 0, frames |-> 0]
    /\ call = [i \in Calls |-> IdleCall]
    /\ out = <<>>
    /\ last = [op |-> "init", id |-> 0, in |-> NoInput]

\* The task op (of call id, with the inputs in) takes the world to w.
Commit(w, op, id, in) ==
    /\ options' = w.options
    /\ platform' = w.platform
    /\ svc' = w.svc
    /\ cam' = w.cam
    /\ video' = w.video
    /\ tracks' = w.tracks
    /\ timers' = w.timers
    /\ call' = w.call
    /\ out' = w.out
    /\ last' = [op |-> op, id |-> id, in |-> in]

\* The caller calls start().
Start(i) ==
    /\ call[i].pc = "idle"
    /\ \A j \in Calls : j < i => call[j].pc # "idle"
    /\ Commit(start(World, i), "start", i, NoInput)

\* The caller calls stop().
Stop ==
    \E w \in {stop(World)} : Commit(w, "stop", 0, NoInput)

\* getUserMedia of call i resolves with a new stream.
GetUserMediaResolved(i) ==
    /\ call[i].pc = "getUserMedia"
    /\ Commit(streamObtained(World, i), "getUserMediaResolved", i, NoInput)

\* getUserMedia of call i rejects.
GetUserMediaRejected(i) ==
    /\ call[i].pc = "getUserMedia"
    /\ \E name \in GumErrorNames :
           Commit(startStreamFailed(World, i, Error(name, <<"platform message">>)),
                  "getUserMediaRejected", i, Rejection(name))

\* The immediate video.play() of call i settles; a play request succeeds only
\* while a source is bound.  Its outcome is ignored and the readiness wait begins.
ImmediatePlaySettled(i) ==
    /\ call[i].pc = "play"
    /\ \E ok \in BOOLEAN :
           /\ ok => video.srcObject # 0
           /\ Commit(awaitReadiness(
                         IF ok THEN [World EXCEPT !.video.paused = FALSE] ELSE World, i),
                     "immediatePlaySettled", i, NoInput)

\* A video.play() requested by attemptPlay of call i succeeds.
PlayResolved(i) ==
    /\ call[i].plays > 0
    /\ video.srcObject # 0
    /\ \E in \in IF call[i].resolved THEN {NoInput} ELSE StartInputs :
           Commit(playSettled(Observe(World, in), i, TRUE, in), "playResolved", i, in)

\* A video.play() requested by attemptPlay of call i fails.
PlayRejected(i) ==
    /\ call[i].plays > 0
    /\ Commit(playSettled(World, i, FALSE, NoInput), "playRejected", i, NoInput)

\* The 2000 ms timeout of the readiness wait of call i fires.
TimeoutFired(i) ==
    /\ call[i].timeoutId
    /\ Commit(timeoutFired(World, i), "timeoutFired", i, NoInput)

\* The 500 ms interval of the readiness wait of call i fires.
IntervalFired(i) ==
    /\ call[i].intervalId
    /\ call[i].plays < MaxPlays
    /\ \E in \in PollInputs :
           Commit(intervalFired(Observe(World, in), i), "intervalFired", i, in)

\* The video element fires loadedmetadata.
LoadedMetadataEvent ==
    /\ video.srcObject # 0
    /\ video.onloadedmetadata # 0 => call[video.onloadedmetadata].plays < MaxPlays
    /\ \E in \in IF svc.isScanning /\ video.loadedmetadataListeners # <<>>
                 THEN TickInputs ELSE {NoInput} :
           Commit(loadedmetadataEvent(Observe(World, in), in), "loadedmetadata", 0, in)

\* The video element fires canplay.
CanPlayEvent ==
    /\ video.srcObject # 0
    /\ video.oncanplay # 0
    /\ call[video.oncanplay].plays < MaxPlays
    /\ Commit(canplayEvent(World), "canplay", 0, NoInput)

\* The video element fires error.
ErrorEvent ==
    /\ video.srcObject # 0
    /\ Commit(errorEvent(World), "error", video.onerror, NoInput)

\* The scan loop's setTimeout fires.
ScanTimeout ==
    /\ timers.timeouts > 0
    /\ Commit(scanTimeout(World), "scanTimeout", 0, NoInput)

\* The animation frame that animationFrameId refers to fires: a tick.
Frame ==
    /\ svc.animationFrameId = "pending"
    /\ \E in \in IF svc.isScanning THEN TickInputs ELSE {NoInput} :
           Commit(scanLoop(Observe([World EXCEPT !.svc.animationFrameId = "fired"], in), in),
                  "frame", 0, in)

\* An animation frame that animationFrameId no longer refers to fires: a tick.
StaleFrame ==
    /\ timers.frames > 0
    /\ \E in \in IF svc.isScanning THEN TickInputs ELSE {NoInput} :
           Commit(scanLoop(Observe([World EXCEPT !.timers.frames = @ - 1], in), in),
                  "staleFrame", 0, in)

Next ==
    \/ \E i \in Calls : Start(i)
    \/ Stop
    \/ \E i \in Calls : GetUserMediaResolved(i)
    \/ \E i \in Calls : GetUserMediaRejected(i)
    \/ \E i \in Calls : ImmediatePlaySettled(i)
    \/ \E i \in Calls : PlayResolved(i)
    \/ \E i \in Calls : PlayRejected(i)
    \/ \E i \in Calls : TimeoutFired(i)
    \/ \E i \in Calls : IntervalFired(i)
    \/ LoadedMetadataEvent
    \/ CanPlayEvent
    \/ ErrorEvent
    \/ ScanTimeout
    \/ Frame
    \/ StaleFrame

Spec == Init /\ [][Next]_vars

\* The caller calls start() when no earlier start() is still pending: it awaits
\* each start() before it calls start() again.
StartSequential(i) ==
    /\ \A j \in Calls : call[j].pc \notin {"getUserMedia", "play", "waiting"}
    /\ Start(i)

NextSequential ==
    \/ \E i \in Calls : StartSequential(i)
    \/ Stop
    \/ \E i \in Calls : GetUserMediaResolved(i)
    \/ \E i \in Calls : GetUserMediaRejected(i)
    \/ \E i \in Calls : ImmediatePlaySettled(i)
    \/ \E i \in Calls : PlayResolved(i)
    \/ \E i \in Calls : PlayRejected(i)
    \/ \E i \in Calls : TimeoutFired(i)
    \/ \E i \in Calls : IntervalFired(i)
    \/ LoadedMetadataEvent
    \/ CanPlayEvent
    \/ ErrorEvent
    \/ ScanTimeout
    \/ Frame
    \/ StaleFrame

SpecSequential == Init /\ [][NextSequential]_vars

\* ------------------------------------------------------------ properties

\* The last task emitted an event of this kind.
Has(kind) == \E n \in DOMAIN out : out[n].kind = kind

\* How often the last task emitted an event of this kind.
Count(kind) == Len(SelectSeq(out, LAMBDA e : e.kind = kind))

\* Call i awaits its stream acquisition.
Acquiring(i) == call[i].pc \in {"getUserMedia", "play", "waiting"}

Attached(q, i) == \E n \in DOMAIN q : q[n] = i

\* The last task ran a tick that passed the guard and reached the capture.
TickCaptured == Has("capture")

\* The last task entered scanLoop while the session was scanning.
TickExecuted ==
    \/ Has("capture")
    \/ \E n \in DOMAIN out : out[n].kind = "warn" /\ out[n].val = <<"video element state">>

\* jsQR found a code whose text has a character that is no whitespace.
NonEmptyText(j) == j.kind = "code" /\ \E n \in DOMAIN j.data : j.data[n] \notin Whitespace

\* The frame of the last task was captured without an exception.
CaptureSucceeded == TickCaptured /\ Capturable(last.in.surface) /\ last.in.capture = "ok"

\* C1: at most one obtained camera stream is live at any time.
C1_AtMostOneLiveStream ==
    Cardinality({i \in Calls : tracks[i] = "live"}) <= 1

\* C2: when stop() has been called while call i awaits its acquisition and the
\* acquisition then succeeds, the scan loop is not started: the session does not
\* become Scanning, no tick runs and none is scheduled.
C2_StopDuringAcquisitionPreventsLoop ==
    [][\A i \in Calls :
          (last.op = "stop" /\ Acquiring(i) /\ call'[i].pc = "resolved")
              => (~svc'.isScanning /\ ~TickExecuted' /\ timers' = timers)]_vars

\* C3: a start() made while an earlier start() is still acquiring is rejected
\* with a warning: it registers no listeners and begins no acquisition.
C3_ReentrantStartRejected ==
    \A i \in Calls :
        (last.op = "start" /\ last.id = i /\ \E j \in Calls \ {i} : Acquiring(j))
            => /\ call[i].pc = "returned"
               /\ ~Attached(video.loadedmetadataListeners, i)
               /\ ~Attached(video.errorListeners, i)

\* C4: a start() made while the session is Scanning only logs a warning: no
\* acquisition, no listener, no callback; the stream, the scanning flag, the
\* surface and the pending ticks are unchanged.
C4_StartWhileScanningOnlyWarns ==
    [][(svc.isScanning /\ last'.op = "start")
          => /\ svc' = svc /\ cam' = cam /\ video' = video
             /\ tracks' = tracks /\ timers' = timers
             /\ call' = [call EXCEPT ![last'.id].pc = "returned"]
             /\ out' = <<[kind |-> "warn", call |-> last'.id, val |-> <<"already scanning">>],
                         [kind |-> "resolved", call |-> last'.id, val |-> <<>>]>>]_vars

C4_Witness ==
    /\ last.op = "start"
    /\ call[last.id].pc = "returned"
    /\ svc.isScanning
    /\ timers.timeouts > 0

\* C5: when the promise of start() resolves (the re-entrant warning aside) the
\* scan loop is running (a tick has executed or is scheduled) or the error
\* callback has been invoked.
C5_ResolvedMeansLoopOrError ==
    \A i \in Calls :
        (last.op = "playResolved" /\ last.id = i /\ call[i].pc = "resolved" /\ Has("resolved"))
            => (TickExecuted \/ timers.timeouts > 0 \/ Has("onError"))

\* The errors of the taxonomy that a failed acquisition is reported as.
ClassifiedErrors ==
    {Error("Error", <<c>>) :
        c \in {"Camera permission denied", "No suitable camera found",
               "Camera is already in use or cannot be accessed",
               "Could not satisfy camera constraints",
               "Camera start timed out or was aborted"}}

Classified(e) ==
    /\ e.name = "Error"
    /\ \/ e \in ClassifiedErrors
       \/ e.message[1] = "Camera Error"

\* The tasks in which a stream acquisition fails.
AcquisitionFailureOps ==
    {"start", "getUserMediaRejected", "playRejected", "timeoutFired", "error"}

\* C6: when the stream acquisition of call i fails, the error callback is
\* invoked exactly once with the classified error, start() rejects with that
\* same error, and the session is not Scanning afterwards.
C6_AcquisitionFailureReported ==
    \A n \in DOMAIN out :
        (last.op \in AcquisitionFailureOps /\ out[n].kind = "rejected")
            => /\ Classified(out[n].val)
               /\ Len(SelectSeq(out, LAMBDA e :
                      IF e.kind = "onError" THEN e.val = out[n].val ELSE FALSE)) = 1
               /\ n > 1 /\ out[n - 1] = [kind |-> "onError", call |-> out[n].call, val |-> out[n].val]
               /\ call[out[n].call].pc = "rejected"
               /\ ~svc.isScanning

C6_Witness ==
    /\ last.op = "getUserMediaRejected"
    /\ \E n \in DOMAIN out :
           /\ out[n].kind = "rejected"
           /\ out[n].val = Error("Error", <<"No suitable camera found">>)

\* C7: with stop-on-scan, a tick that decodes a non-empty string fires the
\* success callback exactly once and leaves the session Stopped with no further
\* tick, whatever the callback does.
C7_StopOnScanStopsAfterOneCallback ==
    (options.stopOnScan /\ Has("onScanSuccess"))
        => (Count("onScanSuccess") = 1 /\ ~svc.isScanning)

\* C8: without stop-on-scan, a tick that decodes a non-empty string invokes the
\* success callback with it, the session stays Scanning and a next tick is
\* scheduled (the callback itself not calling stop()).
C8_ContinuesAfterMatch ==
    (~options.stopOnScan /\ CaptureSucceeded /\ NonEmptyText(last.in.jsqr) /\ last.in.cb # "stop")
        => /\ \E n \in DOMAIN out :
                  out[n].kind = "onScanSuccess" /\ out[n].val = last.in.jsqr.data
           /\ svc.isScanning
           /\ timers.timeouts > 0

C8_Witness ==
    /\ ~options.stopOnScan
    /\ last.op = "frame"
    /\ CaptureSucceeded
    /\ NonEmptyText(last.in.jsqr)
    /\ last.in.cb = "return"
    /\ Count("onScanSuccess") = 1

\* C9: a tick in which decode returns no result leaves the session Scanning,
\* invokes neither callback and schedules the next tick.
C9_NoResultKeepsScanning ==
    (CaptureSucceeded /\ ~NonEmptyText(last.in.jsqr))
        => /\ svc.isScanning
           /\ ~Has("onScanSuccess")
           /\ ~Has("onError")
           /\ timers.timeouts > 0

C9_Witness ==
    /\ last.op = "frame"
    /\ CaptureSucceeded
    /\ last.in.jsqr = [kind |-> "code", data |-> <<" ">>]
    /\ svc.isScanning

\* C10: an exception of the capture or of the decoder in a tick is caught in the
\* tick: the error callback is not invoked, the session stays Scanning and the
\* next tick is scheduled.
C10_TickExceptionContained ==
    (TickCaptured /\ Capturable(last.in.surface)
        /\ (last.in.capture = "throw" \/ last.in.jsqr.kind = "throw"))
        => /\ ~Has("onError")
           /\ ~Has("rejected")
           /\ svc.isScanning
           /\ timers.timeouts > 0

C10_Witness ==
    /\ last.op = "frame"
    /\ TickCaptured
    /\ last.in.capture = "throw"
    /\ Has("logError")
    /\ svc.isScanning

\* No start() has been made yet: the session is Idle.
NeverStarted == \A i \in Calls : call[i].pc = "idle"

\* C11: stop() on a session that has never been started changes nothing: no
\* callback, and the scanning flag, the stream, the listeners and the scheduled
\* ticks are as before.
C11_StopFromIdleIsNoOp ==
    [][(NeverStarted /\ last'.op = "stop")
          => /\ svc' = svc /\ cam' = cam /\ video' = video
             /\ tracks' = tracks /\ timers' = timers /\ call' = call
             /\ out' = <<>>]_vars

C11_Witness ==
    /\ last.op = "stop"
    /\ NeverStarted
    /\ ~svc.isScanning
    /\ out = <<>>

\* C12: stop() can be called in every state and from inside a tick; right
\* after it the session is not scanning, and a second stop() changes nothing more.
C12_StopAlwaysSafe ==
    /\ ~stop(World).svc.isScanning
    /\ stop(stop(World)) = stop(World)
    /\ last.op = "stop" => ~svc.isScanning
    /\ (Has("onScanSuccess") /\ last.in.cb = "stop") => ~svc.isScanning

C12_Witness ==
    /\ ~options.stopOnScan
    /\ Has("onScanSuccess")
    /\ last.in.cb = "stop"
    /\ ~svc.isScanning
    /\ timers.timeouts > 0

\* The scan-loop ticks that are pending: setTimeout callbacks and animation frames.
PendingTicks ==
    timers.timeouts + timers.frames + (IF svc.animationFrameId = "pending" THEN 1 ELSE 0)

\* C13: whenever a Scanning session stops being Scanning, the stream it held is
\* released: its tracks are stopped, the surface has no media source and the
\* manager holds no stream.
C13_StoppedReleasesStream ==
    [][(svc.isScanning /\ ~svc'.isScanning)
          => /\ cam'.stream = 0
             /\ video'.srcObject = 0
             /\ cam.stream # 0 => tracks'[cam.stream] = "stopped"]_vars

\* C14: after stop() no scheduled tick is pending, neither a setTimeout
\* callback nor an animation frame.
C14_StopCancelsPendingTicks ==
    last.op = "stop" => PendingTicks = 0

\* C15: at most one tick of the scan loop is pending at any time.
C15_AtMostOneLoopChain ==
    PendingTicks <= 1

\* The class the catch clause of startStream gives an error: the head of its message.
ErrorClass(e) == e.message[1]

\* The classes of the failures other than the readiness timeout.
OtherClasses == {ErrorClass(e) : e \in ClassifiedErrors} \cup {"Camera Error"}

\* The readiness timeout of call i has just failed its start().
TimedOut(i) ==
    /\ last.op = "timeoutFired"
    /\ last.id = i
    /\ \E n \in DOMAIN out : out[n].kind = "rejected" /\ out[n].call = i

\* C16: a start() that fails because the readiness timeout fired fails with an
\* error of a class of its own, not the generic class nor that of another failure.
C16_TimeoutHasOwnClass ==
    \A n \in DOMAIN out :
        (last.op = "timeoutFired" /\ out[n].kind = "rejected")
            => ErrorClass(out[n].val) \notin OtherClasses

\* C17: after a start() that failed by the readiness timeout nothing registered
\* for it remains: not the acquirer's timeout, interval and handlers, nor the
\* session's loadedmetadata and error listeners.
C17_TimeoutLeavesNothingRegistered ==
    \A i \in Calls :
        TimedOut(i)
            => /\ ~call[i].timeoutId
               /\ ~call[i].intervalId
               /\ video.onloadedmetadata # i /\ video.oncanplay # i /\ video.onerror # i
               /\ ~Attached(video.loadedmetadataListeners, i)
               /\ ~Attached(video.errorListeners, i)

\* C18: once the readiness wait of call i has settled, its timeout, its interval
\* and its loadedmetadata, canplay and error handlers are all deregistered.
C18_SettledWaitIsCleanedUp ==
    \A i \in Calls :
        call[i].resolved
            => /\ ~call[i].timeoutId
               /\ ~call[i].intervalId
               /\ video.onloadedmetadata # i /\ video.oncanplay # i /\ video.onerror # i

C18_Witness ==
    /\ last.op = "error"
    /\ last.id \in Calls
    /\ call[last.id].resolved
    /\ call[last.id].pc = "rejected"

\* The settlements of start() call i that the last task made.
Settlements(i) ==
    SelectSeq(out, LAMBDA e : IF e.kind \in {"resolved", "rejected"} THEN e.call = i ELSE FALSE)

\* C19: the readiness wait of a call settles once: a task settles it at most
\* once, and once it has settled no later signal or play() result settles it
\* again or changes its outcome.
C19_WaitSettlesOnce ==
    [][\A i \in Calls :
          /\ Len(Settlements(i))' <= 1
          /\ call[i].resolved
                => /\ call'[i].resolved
                   /\ call'[i].pc = call[i].pc
                   /\ Len(Settlements(i))' = 0]_vars

C19_Witness ==
    /\ last.op = "playResolved"
    /\ call[last.id].pc = "rejected"
    /\ call[last.id].plays = 1

\* C20: a play() that succeeds after the stream is bound resolves the
\* acquisition at once, also when it is the play() made right after binding.
C20_ImmediatePlayResolves ==
    \A i \in Calls :
        (last.op = "immediatePlaySettled" /\ last.id = i /\ ~video.paused)
            => call[i].pc = "resolved"

\* How often the last task invoked onError with the surface error.
SurfaceErrorReports ==
    Len(SelectSeq(out, LAMBDA e : IF e.kind = "onError" THEN e.val = SurfaceError ELSE FALSE))

\* C21: an error event of the surface that reaches a session error listener
\* while the session is Scanning invokes onError exactly once with the surface
\* error and stops the session (stream released, no animation frame pending);
\* while the session is not Scanning it reports no surface error.
C21_SurfaceErrorStopsSession ==
    [][last'.op = "error"
          => IF svc.isScanning /\ video.errorListeners # <<>>
             THEN /\ SurfaceErrorReports' = 1
                  /\ ~svc'.isScanning
                  /\ cam'.stream = 0
                  /\ video'.srcObject = 0
                  /\ cam.stream # 0 => tracks'[cam.stream] = "stopped"
                  /\ svc'.animationFrameId # "pending"
             ELSE SurfaceErrorReports' = 0]_vars

C21_Witness ==
    /\ last.op = "error"
    /\ SurfaceErrorReports = 1
    /\ ~svc.isScanning
    /\ cam.stream = 0
    /\ \E i \in Calls : tracks[i] = "stopped"

\* The last task told the caller that the video dimensions are zero.
ZeroDimensionsWarned ==
    \E n \in DOMAIN out : out[n].kind = "warn" /\ out[n].val = <<"video dimensions are 0">>

\* C22: when the acquisition succeeds and the surface reports zero width or
\* height, the loop does not start, onError is not invoked and the session is
\* not Scanning.
C22_ZeroDimensionsNotScanning ==
    (last.op = "playResolved" /\ Has("resolved") /\ ZeroDimensionsWarned)
        => /\ ~TickExecuted
           /\ ~Has("onError")
           /\ ~svc.isScanning

\* C23: a frame is captured only in a tick that found the session Scanning and
\* the bound surface neither paused nor ended; outside the continuation of
\* start(), which sets the flag itself after a play() has succeeded, the session
\* was Scanning and playing before the task.
C23_CaptureOnlyWhileScanning ==
    [][TickCaptured'
          => /\ video.srcObject # 0
             /\ last'.in.surface.playback = "playing"
             /\ last'.op # "playResolved" => (svc.isScanning /\ ~video.paused)
             /\ last'.op \in {"playResolved", "loadedmetadata", "frame", "staleFrame"}]_vars

C23_Witness ==
    /\ last.op = "frame"
    /\ CaptureSucceeded
    /\ last.in.jsqr = NoCode
    /\ svc.isScanning

\* C24: no tick executes while a stream acquisition is still pending.
C24_NoTickWhileAcquiring ==
    TickCaptured => \A i \in Calls : ~Acquiring(i)

\* C25: onScanSuccess is only invoked with the decoded text, which has a
\* character that is no whitespace; a tick whose decode output is absent, empty
\* or whitespace-only invokes no callback and does not stop the session.
C25_OnlyNonEmptyResults ==
    /\ \A n \in DOMAIN out :
           out[n].kind = "onScanSuccess"
               => /\ NonEmptyText(last.in.jsqr)
                  /\ out[n].val = last.in.jsqr.data
    /\ (CaptureSucceeded /\ ~NonEmptyText(last.in.jsqr))
           => (~Has("onScanSuccess") /\ svc.isScanning)

C25_Witness ==
    /\ TickCaptured
    /\ last.in.jsqr = [kind |-> "code", data |-> <<" ", "a">>]
    /\ \E n \in DOMAIN out : out[n].kind = "onScanSuccess" /\ out[n].val = <<" ", "a">>

\* The first tick with these inputs ends the session itself: a match with
\* stop-on-scan, or a callback that calls stop().
FirstTickStops(in) ==
    /\ in.capture = "ok"
    /\ NonEmptyText(in.jsqr)
    /\ options.stopOnScan \/ in.cb = "stop"

\* C26: after the earlier runs have ended and the session is not Scanning, a
\* new start() whose acquisition succeeds on a playing surface with non-zero
\* dimensions resolves with the session Scanning, its first tick executed and
\* the next one scheduled (unless that first tick ends the session itself).
C26_Restartable ==
    [][\A i \in Calls :
          (/\ last'.op = "playResolved" /\ last'.id = i /\ ~call[i].resolved
           /\ i > 1
           /\ \A j \in Calls : j < i => call[j].pc \in {"resolved", "rejected", "returned"}
           /\ ~svc.isScanning
           /\ last'.in.surface.readyState >= 2
           /\ Capturable(last'.in.surface)
           /\ ~FirstTickStops(last'.in))
          => /\ call'[i].pc = "resolved"
             /\ svc'.isScanning
             /\ TickCaptured'
             /\ timers'.timeouts > timers.timeouts]_vars

C26_Witness ==
    /\ last.op = "playResolved"
    /\ last.id = 2
    /\ call[1].pc = "resolved"
    /\ tracks[1] = "stopped"
    /\ call[2].pc = "resolved"
    /\ tracks[2] = "live"
    /\ svc.isScanning
    /\ TickCaptured

\* The class of the taxonomy for a platform error category.
ExpectedClass(name) ==
    CASE name = "NotAllowedError" -> "Camera permission denied"
      [] name \in {"NotFoundError", "DevicesNotFoundError"} -> "No suitable camera found"
      [] name \in {"NotReadableError", "TrackStartError"} ->
             "Camera is already in use or cannot be accessed"
      [] name \in {"OverconstrainedError", "ConstraintNotSatisfiedError"} ->
             "Could not satisfy camera constraints"
      [] name = "AbortError" -> "Camera start timed out or was aborted"
      [] OTHER -> "Camera Error"

\* C27: a getUserMedia rejection is reported as the one class that the category
\* of the platform error determines, in a new Error; the platform's error is
\* not passed through.
C27_FailureClassifiedByCategory ==
    \A n \in DOMAIN out :
        (last.op = "getUserMediaRejected" /\ out[n].kind \in {"rejected", "onError"})
            => /\ out[n].val.name = "Error"
               /\ ErrorClass(out[n].val) = ExpectedClass(last.in.error)
               /\ out[n].val # Error(last.in.error, <<"platform message">>)

C27_Witness ==
    /\ last.op = "getUserMediaRejected"
    /\ last.in.error = "TrackStartError"
    /\ \E n \in DOMAIN out :
           /\ out[n].kind = "rejected"
           /\ ErrorClass(out[n].val) = "Camera is already in use or cannot be accessed"

\* C30: stopStream on a held stream stops its tracks, detaches the source,
\* pauses the surface and clears the handle; with nothing held it changes
\* nothing, so a second stopStream changes nothing more.
C30_ReleaseIdempotent ==
    LET r == stopStream(World)
    IN /\ stopStream(r) = r
       /\ cam.stream = 0 => r = World
       /\ cam.stream # 0
             => /\ r.tracks[cam.stream] = "stopped"
                /\ r.video.srcObject = 0
                /\ r.video.paused
                /\ r.cam.stream = 0

C30_Witness ==
    /\ last.op = "stop"
    /\ cam.stream = 0
    /\ video.srcObject = 0
    /\ video.paused
    /\ \E i \in Calls : tracks[i] = "stopped"
    /\ stopStream(World) = World

\* ------------------------------------------- listDevices and the constructor

\* MediaDeviceInfo objects.
Devices == [deviceId : {1, 2}, kind : {"videoinput", "audioinput"}]

RECURSIVE SeqsUpTo(_, _)
SeqsUpTo(S, n) ==
    IF n = 0 THEN {<<>>}
    ELSE LET shorter == SeqsUpTo(S, n - 1)
         IN shorter \cup {Append(q, x) : q \in {p \in shorter : Len(p) = n - 1}, x \in S}

\* What the platform does for an enumeration: enumerateDevices is missing, it
\* rejects, or it resolves with a list of devices.
Enumerations ==
    {[kind |-> "unsupported", devices |-> <<>>], [kind |-> "rejects", devices |-> <<>>]}
        \cup {[kind |-> "resolves", devices |-> d] : d \in SeqsUpTo(Devices, MaxDevices)}

\* CameraManager.listDevices: the settlement of its promise.
listDevices_allKinds(e) ==
    IF e.kind = "unsupported"
    THEN [kind |-> "rejected",
          val |-> Error("Error", <<"Device enumeration (enumerateDevices) is not supported by this browser">>)]
    ELSE IF e.kind = "rejects"
    THEN [kind |-> "rejected", val |-> Error("Error", <<"Failed to list devices", "platform message">>)]
    ELSE [kind |-> "resolved", val |-> e.devices]

listDevices(e) ==
    IF e.kind = "unsupported"
    THEN [kind |-> "rejected",
          val |-> Error("Error", <<"Device enumeration (enumerateDevices) is not supported by this browser">>)]
    ELSE IF e.kind = "rejects"
    THEN [kind |-> "rejected", val |-> Error("Error", <<"Failed to list devices", "platform message">>)]
    ELSE [kind |-> "resolved",
          val |-> SelectSeq(e.devices, LAMBDA device : device.kind = "videoinput")]

\* The options given to the constructor (which of them are valid) and whether
\* the canvas yields a 2D context.
ConstructorInputs ==
    [videoElement : BOOLEAN, onScanSuccess : BOOLEAN, onError : BOOLEAN, context : BOOLEAN]

\* The ScannerService constructor: "constructed", or the message of the Error thrown.
constructor(o) ==
    IF ~o.videoElement THEN "'videoElement' option is required and must be an HTMLVideoElement"
    ELSE IF ~o.onScanSuccess THEN "'onScanSuccess' option is required and must be a function"
    ELSE IF ~o.onError THEN "'onError' option is required and must be a function"
    ELSE IF ~o.context THEN "Could not create 2D canvas context"
    ELSE "constructed"

\* The caller calls CameraManager.listDevices().
ListDevices ==
    \E e \in Enumerations :
        \E w \in {Emit(World, listDevices(e).kind, 0, listDevices(e).val)} :
            Commit(w, "listDevices", 0, e)

\* The caller constructs a ScannerService.
Construct ==
    \E o \in ConstructorInputs :
        \E w \in {Emit(World, "constructor", 0, constructor(o))} :
            Commit(w, "construct", 0, o)

NextStatic ==
    \/ ListDevices
    \/ Construct

SpecStatic == Init /\ [][NextStatic]_vars

\* The positions of the video inputs in an enumeration.
VideoPositions(devices) == {k \in DOMAIN devices : devices[k].kind = "videoinput"}

\* C28: listDevices resolves with exactly the video inputs of the platform's
\* enumeration in the platform's order, and rejects with the
\* enumeration-unsupported error when the platform cannot enumerate.
C28_ListsVideoInputsInOrder ==
    last.op = "listDevices"
        => /\ Len(out) = 1
           /\ last.in.kind = "unsupported"
                 => /\ out[1].kind = "rejected"
                    /\ out[1].val = Error("Error",
                           <<"Device enumeration (enumerateDevices) is not supported by this browser">>)
           /\ last.in.kind = "resolves"
                 => /\ out[1].kind = "resolved"
                    /\ Len(out[1].val) = Cardinality(VideoPositions(last.in.devices))
                    /\ \A k \in VideoPositions(last.in.devices) :
                           out[1].val[Cardinality({j \in VideoPositions(last.in.devices) : j <= k})]
                               = last.in.devices[k]

C28_Witness ==
    /\ last.op = "listDevices"
    /\ last.in.kind = "resolves"
    /\ last.in.devices = <<[deviceId |-> 2, kind |-> "videoinput"],
                           [deviceId |-> 1, kind |-> "audioinput"],
                           [deviceId |-> 1, kind |-> "videoinput"]>>
    /\ out[1].val = <<[deviceId |-> 2, kind |-> "videoinput"],
                      [deviceId |-> 1, kind |-> "videoinput"]>>

\* C29: constructing a ScannerService with a valid videoElement and
\* onScanSuccess succeeds whether or not onError is given.
C29_OnErrorOptional ==
    (last.op = "construct" /\ last.in.videoElement /\ last.in.onScanSuccess /\ last.in.context)
        => out[1].val = "constructed"

\* ------------------------------------------- stop() and the pending ticks

\* The last task ran a tick whose onScanSuccess callback called stop().
InTickStop == Has("onScanSuccess") /\ last.in.cb = "stop"

\* The caller never calls stop() from outside a tick and the surface fires no
\* error event: a Scanning session ends only inside a tick, by the callback's
\* stop(), by a stop-on-scan match or by the tick's guard.  The last two leave
\* scanLoop before its setTimeout.
NextStoppedInTick ==
    \/ \E i \in Calls : StartSequential(i)
    \/ \E i \in Calls : GetUserMediaResolved(i)
    \/ \E i \in Calls : GetUserMediaRejected(i)
    \/ \E i \in Calls : ImmediatePlaySettled(i)
    \/ \E i \in Calls : PlayResolved(i)
    \/ \E i \in Calls : PlayRejected(i)
    \/ \E i \in Calls : TimeoutFired(i)
    \/ \E i \in Calls : IntervalFired(i)
    \/ LoadedMetadataEvent
    \/ CanPlayEvent
    \/ ScanTimeout
    \/ Frame
    \/ StaleFrame

SpecStoppedInTick == Init /\ [][NextStoppedInTick]_vars

\* The first start() resolved and began its loop, a later start() has resolved
\* and the loadedmetadata listener of no later start() has run past its guard:
\* no later start() has begun a scan loop of its own.
RestartedWithoutLoop ==
    /\ call[1].pc = "resolved"
    /\ call[1].metadataLoaded
    /\ \E i \in Calls : i > 1 /\ call[i].pc = "resolved"
    /\ \A i \in Calls : i > 1 => ~call[i].metadataLoaded

\* The last task ran a tick from an animation frame and captured.
FrameTickCaptured == last.op \in {"frame", "staleFrame"} /\ TickCaptured

\* C31: stop() called by the success callback inside a tick is re-entrant-safe:
\* the tick completes without raising, the stream is released, the session is
\* Stopped, and what the rest of that tick schedules never leads to a tick that
\* executes.  Where a session ends only inside a tick and stop-on-scan is off,
\* a timer pending after the session has ended was scheduled by the tick whose
\* callback called stop(); so after a restart no animation frame runs a tick
\* before the restarted session has begun a loop of its own.
C31_ReentrantStopSafe ==
    (~options.stopOnScan /\ RestartedWithoutLoop) => ~FrameTickCaptured

SpecFair ==
    /\ Init
    /\ [][NextSequential]_vars
    /\ WF_vars(ScanTimeout)
    /\ WF_vars(Frame)
    /\ WF_vars(StaleFrame)

\* C33: the scan loop never silently stalls: a tick that leaves the session
\* Scanning has scheduled its setTimeout; while the session stays Scanning the
\* setTimeout callback leads to an animation-frame request, and the animation
\* frame to the next tick.
C33_LoopNeverStalls ==
    /\ []((TickExecuted /\ svc.isScanning) => timers.timeouts > 0)
    /\ (svc.isScanning /\ timers.timeouts > 0)
           ~> (~svc.isScanning \/ svc.animationFrameId = "pending")
    /\ (svc.isScanning /\ svc.animationFrameId = "pending")
           ~> (~svc.isScanning \/ (last.op = "frame" /\ TickExecuted))

C33_Witness ==
    /\ last.op = "frame"
    /\ Has("onScanSuccess")
    /\ last.in.cb = "raise"
    /\ svc.isScanning
    /\ svc.animationFrameId = "fired"
    /\ timers.timeouts = 1

\* ------------------------------------------------ the acquisition settles

\* C34: once the stream is obtained and bound, the acquisition settles within
\* the readiness timeout whatever the surface does, also when its play() never
\* completes and it fires no event: as long as the acquisition of call i has
\* not settled, its readiness timeout is pending.
C34_AcquireBoundedByTimeout ==
    \A i \in Calls : call[i].pc \in {"play", "waiting"} => call[i].timeoutId

\* ------------------------------------------------------ the sampling buffer

\* C35: at every frame capture the canvas is as wide and as high as the video
\* is in that tick: a change of the video's dimensions since the last tick is
\* applied to the canvas before the frame is drawn.
C35_BufferMatchesSurface ==
    TickCaptured => svc.canvas = last.in.surface.size

C35_Witness ==
    /\ last.op = "frame"
    /\ CaptureSucceeded
    /\ last.in.jsqr.kind = "code"
    /\ svc.canvas = <<1, 1>>
    /\ svc.canvas = last.in.surface.size

\* ------------------------------------------- the flag, the stream, listeners

\* C36: whenever the session is not Scanning and no start() is in progress,
\* the camera manager holds no live stream: the tracks of every obtained stream
\* are stopped and the video element has no source; so also after a start()
\* that failed once its stream had been obtained.
C36_NotScanningHoldsNoStream ==
    (~svc.isScanning /\ \A i \in Calls : ~Acquiring(i))
        => /\ cam.stream = 0
           /\ video.srcObject = 0
           /\ \A i \in Calls : tracks[i] # "live"

\* C37: whenever the session is Scanning, the camera manager holds a stream
\* whose tracks are live and which is the source of the video element, for
\* every interleaving of start() and stop().
C37_ScanningHoldsLiveStream ==
    svc.isScanning
        => /\ cam.stream # 0
           /\ tracks[cam.stream] = "live"
           /\ video.srcObject = cam.stream

C37_Witness ==
    /\ svc.isScanning
    /\ last.op = "frame"
    /\ TickCaptured
    /\ call[1].pc = "resolved"
    /\ tracks[1] = "stopped"
    /\ cam.stream = 2
    /\ tracks[2] = "live"
    /\ video.srcObject = 2

\* C38: after a stop() that found the session Scanning, no loadedmetadata or
\* error listener that a start() registered is attached to the video element,
\* those of failed starts included.
C38_StopDetachesAllListeners ==
    [][(svc.isScanning /\ last'.op = "stop")
          => /\ video'.loadedmetadataListeners = <<>>
             /\ video'.errorListeners = <<>>]_vars
====
